---- MODULE Spec2Model ----
(***************************************************************************)
(* Model of class-settings-decorators (src/src/index.ts): the metadata     *)
(* store written by the field decorators, and SettingFactory.query /       *)
(* SettingFactory.create reading it.                                       *)
(***************************************************************************)
EXTENDS Integers, Sequences, FiniteSets, TLC

VARIABLES
  metaClassDecorators, \* per prototype: the own Set of decorated property keys
  metaDecorators,      \* per prototype and property: the own list of configs
  designType,          \* per prototype and property: the own 'design:type'
  env,                 \* process.env
  applied,             \* per class and property: decorators applied so far
  last                 \* the latest query/create call and its outcome, held
                       \* until the class definitions or process.env change

vars == <<metaClassDecorators, metaDecorators, designType, env, applied, last>>

\* Largest number of decorator applications in one behaviour.
MaxDecl == 3

(***************************************************************************)
(* JavaScript values.  Every value has the same record shape; payloads of  *)
(* primitives are kept as strings, props is the list of own properties of  *)
(* an object.                                                              *)
(***************************************************************************)
Undefined == [t |-> "undefined", v |-> "", props |-> <<>>]
Null == [t |-> "null", v |-> "", props |-> <<>>]
Str(s) == [t |-> "string", v |-> s, props |-> <<>>]
Num(s) == [t |-> "number", v |-> s, props |-> <<>>]
Obj(cls, props) == [t |-> "object", v |-> cls, props |-> props]

Prop(k, val) == [k |-> k, val |-> val]

\* Object.defineProperty(this, key, {value}): replace in place or append.
RECURSIVE DefineProperty(_, _, _)
DefineProperty(props, k, val) ==
  IF props = <<>> THEN <<Prop(k, val)>>
  ELSE IF Head(props).k = k THEN <<Prop(k, val)>> \o Tail(props)
  ELSE <<Head(props)>> \o DefineProperty(Tail(props), k, val)

HasProp(props, k) == \E i \in 1..Len(props) : props[i].k = k

GetProp(props, k) ==
  IF HasProp(props, k)
  THEN props[CHOOSE i \in 1..Len(props) : props[i].k = k].val
  ELSE Undefined

(***************************************************************************)
(* The classes of the test suite and their prototype chains.               *)
(***************************************************************************)
Classes == {"TestClass", "Sub", "Sibling", "Nested"}

Fields == {"foo", "bar", "nested", "nil", "config"}

EnvNames == {"_TEST_FOO", "_TEST_FOO_PLUS"}

\* What process.env can hold under a name: nothing, a string, or (the tests
\* replace process.env by a plain object) a number.
EnvValues(name) ==
  IF name = "_TEST_FOO" THEN {Undefined, Str("1"), Num("1")}
  ELSE {Undefined, Num("100")}

Environments == {e \in [EnvNames -> {Undefined, Str("1"), Num("1"), Num("100")}] :
                   \A n \in EnvNames : e[n] \in EnvValues(n)}

ParseFns == {"parseInt", "numberOnly"}

Parent(c) ==
  CASE c = "Sub" -> "TestClass"
    [] c = "Sibling" -> "TestClass"
    [] OTHER -> "Settings"

\* The prototypes walked by Reflect.getMetadata, most derived first.
RECURSIVE ProtoChain(_)
ProtoChain(c) ==
  IF c \notin Classes THEN <<>> ELSE <<c>> \o ProtoChain(Parent(c))

\* Field initialisers run by a class's constructor, base class first.
RECURSIVE Defaults(_)
Defaults(c) ==
  CASE c = "TestClass" -> <<Prop("bar", Str("sup"))>>
    [] c = "Sub" -> DefineProperty(Defaults("TestClass"), "foo", Num("100"))
    [] c = "Sibling" -> Defaults("TestClass")
    [] OTHER -> <<>>

\* The type the compiler emits as 'design:type' for a decorated property.
DeclaredType(c, f) ==
  CASE f = "foo" -> "Number"
    [] f = "bar" -> "String"
    [] f = "nested" -> "Nested"
    [] f = "config" -> "String"
    [] OTHER -> "Undefined"

\* !designType
Falsy(type) == type \in {"Undefined", "Null"}

(***************************************************************************)
(* Decorator configs.                                                      *)
(***************************************************************************)
Config(type, propertyKey, arg) ==
  [type |-> type, propertyKey |-> propertyKey, arg |-> arg]

Decorators ==
  {[type |-> "env", arg |-> n] : n \in EnvNames}
  \cup {[type |-> "parse", arg |-> fn] : fn \in ParseFns}
  \cup {[type |-> "nested", arg |-> ""], [type |-> "overwrite", arg |-> ""]}

\* The decorated properties of the modelled classes: <<class, property, decorator>>.
Decorations ==
  {<<"TestClass", "foo", d>> : d \in {x \in Decorators : x.type # "overwrite"}}
  \cup {<<"TestClass", "bar", [type |-> "env", arg |-> "_TEST_FOO_PLUS"]>>,
        <<"TestClass", "nested", [type |-> "nested", arg |-> ""]>>,
        <<"TestClass", "nil", [type |-> "env", arg |-> "_TEST_FOO_PLUS"]>>,
        <<"TestClass", "nil", [type |-> "nested", arg |-> ""]>>,
        <<"Sub", "foo", [type |-> "overwrite", arg |-> ""]>>,
        <<"Sub", "foo", [type |-> "env", arg |-> "_TEST_FOO"]>>,
        <<"Nested", "config", [type |-> "env", arg |-> "_TEST_FOO"]>>}

\* The decorated properties in the order their definitions are evaluated.
DefinitionOrder ==
  <<<<"Nested", "config">>, <<"TestClass", "foo">>, <<"TestClass", "bar">>,
    <<"TestClass", "nested">>, <<"TestClass", "nil">>, <<"Sub", "foo">>>>

(***************************************************************************)
(* The metadata store (reflect-metadata) and the decorators writing it.    *)
(***************************************************************************)
NoMeta == [def |-> FALSE, list |-> <<>>]
NoType == [def |-> FALSE, type |-> "Undefined"]

\* Reflect.getMetadata on a per-prototype table: the nearest prototype of the
\* chain holding an own entry, "none" when no prototype holds one.
RECURSIVE Nearest(_, _)
Nearest(table, chain) ==
  IF chain = <<>> THEN "none"
  ELSE IF table[Head(chain)].def THEN Head(chain)
  ELSE Nearest(table, Tail(chain))

\* The prototype whose object getOrCreateKeyList returns for target: the one
\* found along the prototype chain, otherwise target itself (freshly defined).
GetOrCreateKeyList(table, target) ==
  IF Nearest(table, ProtoChain(target)) # "none"
  THEN Nearest(table, ProtoChain(target))
  ELSE target

PropertyTable(f) == [c \in Classes |-> metaDecorators[c][f]]

\* Set.prototype.add on an insertion-ordered set.
SetAdd(list, x) ==
  IF \E i \in 1..Len(list) : list[i] = x THEN list ELSE Append(list, x)

DefineKeyConfig(config, target, propertyKey) ==
  LET classOwner == GetOrCreateKeyList(metaClassDecorators, target)
      propOwner == GetOrCreateKeyList(PropertyTable(propertyKey), target)
  IN /\ metaClassDecorators' =
          [metaClassDecorators EXCEPT ![classOwner] =
             [def |-> TRUE, list |-> SetAdd(@.list, propertyKey)]]
     /\ metaDecorators' =
          [metaDecorators EXCEPT ![propOwner][propertyKey] =
             [def |-> TRUE, list |-> Append(@.list, config)]]

\* env(name), parse(fn) and nested() record a config.
Declare(d, target, propertyKey) ==
  DefineKeyConfig(Config(d.type, propertyKey, d.arg), target, propertyKey)

\* overwrite() emptying the list it finds along the prototype chain.
OverwriteClearsInherited(target, propertyKey) ==
  /\ metaDecorators' =
       [metaDecorators EXCEPT
          ![GetOrCreateKeyList(PropertyTable(propertyKey), target)][propertyKey] =
            [def |-> TRUE, list |-> <<>>]]
  /\ UNCHANGED metaClassDecorators

\* overwrite() defines an empty own list and leaves the key set alone.
Overwrite(target, propertyKey) ==
  /\ metaDecorators' =
       [metaDecorators EXCEPT ![target][propertyKey] =
          [def |-> TRUE, list |-> <<>>]]
  /\ UNCHANGED metaClassDecorators

RECURSIVE SumLen(_, _)
SumLen(S, a) ==
  IF S = {} THEN 0
  ELSE LET x == CHOOSE y \in S : TRUE
       IN Len(a[x[1]][x[2]]) + SumLen(S \ {x}, a)

DeclCount == SumLen(Classes \X Fields, applied)

(***************************************************************************)
(* Handlers, SettingFactory and Settings.  An evaluation returns           *)
(* [ok, value, error, log]: ok is FALSE when it throws error; log lists    *)
(* the observable events in the order they happen.                         *)
(***************************************************************************)
NoError == [msg |-> "", cite |-> "", fields |-> <<>>, messages |-> <<>>]
Error(msg, cite) == [msg |-> msg, cite |-> cite, fields |-> <<>>, messages |-> <<>>]

\* An event: a handler's call (on: the config's propertyKey, key: the variable
\* or function, val: what it read or was given) or a step of buildInstance (on:
\* the class, key: the property, val: the value or the instance).
Ev(ev, on, key, val) == [ev |-> ev, on |-> on, key |-> key, val |-> val]

Return(value, log) == [ok |-> TRUE, value |-> value, error |-> NoError, log |-> log]
Throw(error, log) == [ok |-> FALSE, value |-> Undefined, error |-> error, log |-> log]

\* new SettingFactory().handlers, and the handlers = {} of the test's NewFactory.
DefaultHandlers == {"env", "parse", "nested", "overwrite"}
HandlerSets == {DefaultHandlers, {}}

\* The functions given to parse(): parseInt(value, 10) of the README,
\* (value) => typeof value === 'number' ? value : undefined, and
\* (value) => value === '' ? null : value.
ApplyFn(fn, value) ==
  CASE fn = "parseInt" ->
         IF value.t \in {"string", "number"} /\ value.v \in {"1", "100"}
         THEN Num(value.v) ELSE Num("NaN")
    [] fn = "numberOnly" -> IF value.t = "number" THEN value ELSE Undefined
    [] fn = "nullIfEmpty" -> IF value = Str("") THEN Null ELSE value
    [] OTHER -> Undefined

EnvironmentHandler(value, type, config) ==
  Return(env[config.arg], <<Ev("env", config.propertyKey, config.arg, env[config.arg])>>)

\* parseHandler not calling fn on an absent value.
ParseHandlerSkipsAbsent(value, type, config) ==
  IF value = Undefined THEN Return(Undefined, <<>>)
  ELSE Return(ApplyFn(config.arg, value),
              <<Ev("parse", config.propertyKey, config.arg, value)>>)

ParseHandler(value, type, config) ==
  Return(ApplyFn(config.arg, value), <<Ev("parse", config.propertyKey, config.arg, value)>>)

OverwriteHandler(value, type, config) == Return(Undefined, <<>>)

\* ValidationError: message is `${propertyKey} (${value}) failed to parse as
\* type ${type}`, kept as its three interpolated parts.
ValidationError(propertyKey, type, value) ==
  [propertyKey |-> propertyKey, type |-> type,
   message |-> [propertyKey |-> propertyKey, value |-> value, type |-> type]]

\* ValidationError.join: `Error in ${fields.join(', ')} fields\n` followed by
\* the messages joined by '\n'; a plain Error.
Join(errors) ==
  [msg |-> "Error in fields", cite |-> "",
   fields |-> [i \in 1..Len(errors) |-> errors[i].propertyKey],
   messages |-> [i \in 1..Len(errors) |-> errors[i].message]]

\* value instanceof expectedType
InstanceOf(value, type) ==
  /\ value.t = "object"
  /\ \/ type = "Object"
     \/ \E i \in 1..Len(ProtoChain(value.v)) : ProtoChain(value.v)[i] = type

\* Settings.$validateType for a type the validators map or instanceof accepts.
ValidateType(expectedType, value) ==
  CASE expectedType = "Boolean" -> value.t = "boolean"
    [] expectedType = "Number" -> value.t = "number"
    [] expectedType = "String" -> value.t = "string"
    [] expectedType = "Null" -> value.t = "null"
    [] OTHER -> InstanceOf(value, expectedType)

\* $validate stopping at the first value that fails its type.
RECURSIVE ValidateFromStopsAtFirst(_, _, _, _)
ValidateFromStopsAtFirst(values, designTypes, i, sum) ==
  IF i > Len(values) THEN Return(sum, <<>>)
  ELSE LET key == values[i].k
           type == GetProp(designTypes, key)
       IN IF Falsy(type)
          THEN Throw(Error("Could not resolve type for", key), <<>>)
          ELSE IF ~ValidateType(type, values[i].val)
          THEN Return(Append(sum, ValidationError(key, type, values[i].val)), <<>>)
          ELSE ValidateFromStopsAtFirst(values, designTypes, i + 1, sum)

\* $validate throwing at the first value that fails its type.
RECURSIVE ValidateFromThrows(_, _, _, _)
ValidateFromThrows(values, designTypes, i, sum) ==
  IF i > Len(values) THEN Return(sum, <<>>)
  ELSE LET key == values[i].k
           type == GetProp(designTypes, key)
       IN IF Falsy(type) \/ ~ValidateType(type, values[i].val)
          THEN Throw(Error("Could not resolve type for", key), <<>>)
          ELSE ValidateFromThrows(values, designTypes, i + 1, sum)

\* Settings.$validate over Object.keys(values), from position i on.
RECURSIVE ValidateFrom(_, _, _, _)
ValidateFrom(values, designTypes, i, sum) ==
  IF i > Len(values) THEN Return(sum, <<>>)
  ELSE LET key == values[i].k
           value == values[i].val
           type == GetProp(designTypes, key)
       IN IF Falsy(type)
          THEN Throw(Error("Could not resolve type for", key), <<>>)
          ELSE ValidateFrom(values, designTypes, i + 1,
                 IF ~ValidateType(type, value)
                 THEN Append(sum, ValidationError(key, type, value))
                 ELSE sum)

\* $validate reporting success whatever the errors.
ValidateIgnoresErrors(values, designTypes) ==
  LET r == ValidateFrom(values, designTypes, 1, <<>>)
  IN [ok |-> r.ok, success |-> r.ok,
      errors |-> IF r.ok THEN r.value ELSE <<>>, error |-> r.error]

\* [ok, success, errors, error]
Validate(values, designTypes) ==
  LET r == ValidateFrom(values, designTypes, 1, <<>>)
  IN [ok |-> r.ok, success |-> r.ok /\ r.value = <<>>,
      errors |-> IF r.ok THEN r.value ELSE <<>>, error |-> r.error]

\* The constructor of buildInstance's Subclass: super() runs the field
\* initialisers, then every entry of values is defined on the instance.
RECURSIVE Overlay(_, _, _, _)
Overlay(cls, obj, values, i) ==
  IF i > Len(values) THEN obj
  ELSE Overlay(cls,
         [props |-> DefineProperty(obj.props, values[i].k, values[i].val),
          log |-> Append(obj.log, Ev("defineProperty", cls, values[i].k, values[i].val))],
         values, i + 1)

\* buildInstance calling onBuild from the constructor, before the overlay.
BuildInstanceHookFirst(cls, values) ==
  LET hooked == <<Ev("constructor", cls, "", Obj(cls, Defaults(cls))),
                  Ev("onBuild", cls, "", Obj(cls, Defaults(cls)))>>
      constructed == Overlay(cls, [props |-> Defaults(cls), log |-> hooked], values, 1)
  IN Return(Obj(cls, constructed.props), constructed.log)

\* SettingFactory.buildInstance: new Subclass(), then instance.onBuild();
\* the onBuild event carries the instance as the hook sees it.
BuildInstance(cls, values) ==
  LET constructed ==
        Overlay(cls, [props |-> Defaults(cls),
                      log |-> <<Ev("constructor", cls, "", Obj(cls, Defaults(cls)))>>],
                values, 1)
      instance == Obj(cls, constructed.props)
  IN Return(instance, Append(constructed.log, Ev("onBuild", cls, "", instance)))

\* Outcome of query/create.  kind "result" is {result: instance, errors: null},
\* "errors" is {result: null, errors: [...]}, "throw" is a raised error.  meta
\* is classMeta ({values, designTypes}) as far as it was built, at the
\* property whose resolution threw ("" when none did).
Outcome(kind, result, errors, error, meta, at, log) ==
  [kind |-> kind, result |-> result, errors |-> errors, error |-> error,
   values |-> meta.values, designTypes |-> meta.designTypes, at |-> at, log |-> log]

NoCall == [op |-> "none", cls |-> "", handlers |-> {},
           out |-> Outcome("", Null, <<>>, NoError,
                           [values |-> <<>>, designTypes |-> <<>>], "", <<>>)]

RECURSIVE Query(_, _), Create(_, _), ResolveFrom(_, _, _, _, _, _), QueryFrom(_, _, _, _, _, _)

\* nestedHandler going through query and handing on its result, null included.
NestedHandlerQueries(value, type, config, handlers) ==
  IF Falsy(type)
  THEN Throw(Error("design type is null or undefined", config.propertyKey), <<>>)
  ELSE IF type \notin Classes
  THEN Throw(Error("is not a subclass of settings", config.propertyKey), <<>>)
  ELSE LET q == Query(type, handlers)
       IN IF q.kind = "throw" THEN Throw(q.error, q.log)
          ELSE Return(q.result, q.log)

\* nestedHandler
NestedHandler(value, type, config, handlers) ==
  IF Falsy(type)
  THEN Throw(Error("design type is null or undefined", config.propertyKey), <<>>)
  ELSE IF type \notin Classes
  THEN Throw(Error("is not a subclass of settings", config.propertyKey), <<>>)
  ELSE LET c == Create(type, handlers)
       IN IF c.kind = "throw" THEN Throw(c.error, c.log)
          ELSE Return(c.result, c.log)

Handler(value, type, config, handlers) ==
  CASE config.type = "env" -> EnvironmentHandler(value, type, config)
    [] config.type = "parse" -> ParseHandler(value, type, config)
    [] config.type = "nested" -> NestedHandler(value, type, config, handlers)
    [] OTHER -> OverwriteHandler(value, type, config)

\* resolveValue passing over a config whose type has no handler.
RECURSIVE ResolveFromSkipsUnknown(_, _, _, _, _, _)
ResolveFromSkipsUnknown(type, decorators, i, sum, log, handlers) ==
  IF i > Len(decorators) THEN Return(sum, log)
  ELSE LET config == decorators[i]
       IN IF config.type \notin handlers
          THEN ResolveFromSkipsUnknown(type, decorators, i + 1, sum, log, handlers)
          ELSE LET r == Handler(sum, type, config, handlers)
               IN IF ~r.ok THEN Throw(r.error, log \o r.log)
                  ELSE ResolveFromSkipsUnknown(type, decorators, i + 1,
                         IF r.value = Undefined THEN sum ELSE r.value,
                         log \o r.log, handlers)

\* resolveValue keeping the first defined value instead of the last one.
RECURSIVE ResolveFromFirstWins(_, _, _, _, _, _)
ResolveFromFirstWins(type, decorators, i, sum, log, handlers) ==
  IF i > Len(decorators) THEN Return(sum, log)
  ELSE LET config == decorators[i]
       IN IF config.type \notin handlers
          THEN Throw(Error("unexpected handler type", config.type), log)
          ELSE LET r == Handler(sum, type, config, handlers)
               IN IF ~r.ok THEN Throw(r.error, log \o r.log)
                  ELSE ResolveFromFirstWins(type, decorators, i + 1,
                         IF sum # Undefined THEN sum ELSE r.value,
                         log \o r.log, handlers)

\* resolveValue taking null and the empty string for absent (!value).
RECURSIVE ResolveFromFalsyAbsent(_, _, _, _, _, _)
ResolveFromFalsyAbsent(type, decorators, i, sum, log, handlers) ==
  IF i > Len(decorators) THEN Return(sum, log)
  ELSE LET config == decorators[i]
       IN IF config.type \notin handlers
          THEN Throw(Error("unexpected handler type", config.type), log)
          ELSE LET r == Handler(sum, type, config, handlers)
               IN IF ~r.ok THEN Throw(r.error, log \o r.log)
                  ELSE ResolveFromFalsyAbsent(type, decorators, i + 1,
                         IF r.value \in {Undefined, Null, Str("")} THEN sum ELSE r.value,
                         log \o r.log, handlers)

\* SettingFactory.resolveValue: decorators.reduce(..., undefined) from
\* position i on, sum being the accumulator.
ResolveFrom(type, decorators, i, sum, log, handlers) ==
  IF i > Len(decorators) THEN Return(sum, log)
  ELSE LET config == decorators[i]
       IN IF config.type \notin handlers
          THEN Throw(Error("unexpected handler type", config.type), log)
          ELSE LET r == Handler(sum, type, config, handlers)
               IN IF ~r.ok THEN Throw(r.error, log \o r.log)
                  ELSE ResolveFrom(type, decorators, i + 1,
                         IF r.value = Undefined THEN sum ELSE r.value,
                         log \o r.log, handlers)

ResolveValue(type, decorators, handlers) ==
  ResolveFrom(type, decorators, 1, Undefined, <<>>, handlers)

\* Reflect.getMetadata(metaClassDecorators, classObject.prototype) || []
Keys(cls) ==
  LET owner == Nearest(metaClassDecorators, ProtoChain(cls))
  IN IF owner = "none" THEN <<>> ELSE metaClassDecorators[owner].list

\* usedHandlers = ownHandlers || protoHandlers.  ownHandlers reads
\* metaClassDecorators under a property key, which nothing defines, so it is
\* always undefined and usedHandlers is protoHandlers:
\* Reflect.getMetadata(metaDecorators, classObject.prototype, propertyKey)
ProtoHandlers(cls, propertyKey) ==
  LET owner == Nearest(PropertyTable(propertyKey), ProtoChain(cls))
  IN IF owner = "none" THEN NoMeta ELSE metaDecorators[owner][propertyKey]

\* Reflect.getMetadata('design:type', classObject.prototype, propertyKey)
DesignTypeOf(cls, propertyKey) ==
  LET owner == Nearest([c \in Classes |-> designType[c][propertyKey]], ProtoChain(cls))
  IN IF owner = "none" THEN "Undefined" ELSE designType[owner][propertyKey].type

\* The reduce over the keys in SettingFactory.query, from position i on;
\* value is [values, designTypes] as built so far.
QueryFrom(cls, handlers, keys, i, sum, log) ==
  IF i > Len(keys)
  THEN [ok |-> TRUE, value |-> sum, error |-> NoError, log |-> log, at |-> ""]
  ELSE LET propertyKey == keys[i]
           usedHandlers == ProtoHandlers(cls, propertyKey)
           type == DesignTypeOf(cls, propertyKey)
           r == ResolveValue(type, usedHandlers.list, handlers)
           typed == [sum EXCEPT !.designTypes = DefineProperty(@, propertyKey, type)]
       IN IF ~usedHandlers.def
          THEN QueryFrom(cls, handlers, keys, i + 1, sum, log)
          ELSE IF ~r.ok
          THEN [ok |-> FALSE, value |-> typed, error |-> r.error, log |-> log \o r.log,
                at |-> propertyKey]
          ELSE QueryFrom(cls, handlers, keys, i + 1,
                 IF r.value = Undefined THEN typed
                 ELSE [typed EXCEPT !.values = DefineProperty(@, propertyKey, r.value)],
                 log \o r.log)

\* query building the instance before it looks at the validation result.
QueryBuildsBeforeValidating(cls, handlers) ==
  LET classMeta == QueryFrom(cls, handlers, Keys(cls), 1,
                             [values |-> <<>>, designTypes |-> <<>>], <<>>)
      meta == classMeta.value
      validate == Validate(meta.values, meta.designTypes)
      built == BuildInstance(cls, meta.values)
  IN IF ~classMeta.ok
     THEN Outcome("throw", Null, <<>>, classMeta.error, meta, classMeta.at, classMeta.log)
     ELSE IF ~validate.ok
     THEN Outcome("throw", Null, <<>>, validate.error, meta, "", classMeta.log)
     ELSE IF validate.success
     THEN Outcome("result", built.value, <<>>, NoError, meta, "",
                  classMeta.log \o built.log)
     ELSE Outcome("errors", Null, validate.errors, NoError, meta, "",
                  classMeta.log \o built.log)

\* SettingFactory.query
Query(cls, handlers) ==
  LET classMeta == QueryFrom(cls, handlers, Keys(cls), 1,
                             [values |-> <<>>, designTypes |-> <<>>], <<>>)
      meta == classMeta.value
      validate == Validate(meta.values, meta.designTypes)
      built == BuildInstance(cls, meta.values)
  IN IF ~classMeta.ok
     THEN Outcome("throw", Null, <<>>, classMeta.error, meta, classMeta.at, classMeta.log)
     ELSE IF ~validate.ok
     THEN Outcome("throw", Null, <<>>, validate.error, meta, "", classMeta.log)
     ELSE IF validate.success
     THEN Outcome("result", built.value, <<>>, NoError, meta, "",
                  classMeta.log \o built.log)
     ELSE Outcome("errors", Null, validate.errors, NoError, meta, "", classMeta.log)

\* SettingFactory.create
Create(cls, handlers) ==
  LET q == Query(cls, handlers)
  IN IF q.kind = "errors"
     THEN [q EXCEPT !.kind = "throw", !.errors = <<>>, !.error = Join(q.errors)]
     ELSE q

TypeOK ==
  /\ metaClassDecorators \in [Classes -> [def : BOOLEAN, list : Seq(Fields)]]
  /\ DOMAIN metaDecorators = Classes
  /\ DOMAIN designType = Classes
  /\ env \in Environments
  /\ last.op \in {"none", "query", "create"}

Init ==
  /\ metaClassDecorators = [c \in Classes |-> NoMeta]
  /\ metaDecorators = [c \in Classes |-> [f \in Fields |-> NoMeta]]
  /\ designType = [c \in Classes |-> [f \in Fields |-> NoType]]
  /\ env \in Environments
  /\ applied = [c \in Classes |-> [f \in Fields |-> <<>>]]
  /\ last = NoCall

(***************************************************************************)
(* Actions.                                                                *)
(***************************************************************************)
\* A decorator of a decorated property of a class definition.  The compiler
\* emits the property's 'design:type' with its decorators.  Class definitions
\* are evaluated in file order (a class before the classes extending or
\* nesting it), the properties of a class in member order, the decorators of a
\* property one after the other.
Decorate(cls, propertyKey, d) ==
  /\ DeclCount < MaxDecl
  /\ \A i \in 1..Len(DefinitionOrder) :
        DefinitionOrder[i] = <<cls, propertyKey>> =>
          \A j \in (i + 1)..Len(DefinitionOrder) :
            applied[DefinitionOrder[j][1]][DefinitionOrder[j][2]] = <<>>
  /\ IF d.type = "overwrite"
     THEN Overwrite(cls, propertyKey)
     ELSE Declare(d, cls, propertyKey)
  /\ designType' = [designType EXCEPT ![cls][propertyKey] =
                      [def |-> TRUE, type |-> DeclaredType(cls, propertyKey)]]
  /\ applied' = [applied EXCEPT ![cls][propertyKey] = Append(@, d)]
  /\ last' = NoCall
  /\ UNCHANGED env

\* process.env[name] = value, or delete process.env[name].
SetEnv(name, value) ==
  /\ env[name] # value
  /\ env' = [env EXCEPT ![name] = value]
  /\ last' = NoCall
  /\ UNCHANGED <<metaClassDecorators, metaDecorators, designType, applied>>

\* query looking its key set up with getOrCreateKeyList, which defines one.
DoQueryDefiningKeys(cls, handlers) ==
  /\ last' = [op |-> "query", cls |-> cls, handlers |-> handlers,
              out |-> Query(cls, handlers)]
  /\ metaClassDecorators' =
       [metaClassDecorators EXCEPT ![GetOrCreateKeyList(metaClassDecorators, cls)] =
          [def |-> TRUE, list |-> @.list]]
  /\ UNCHANGED <<metaDecorators, designType, env, applied>>

\* factory.query(classObject) reads the store and process.env only.
DoQuery(cls, handlers) ==
  /\ last' = [op |-> "query", cls |-> cls, handlers |-> handlers,
              out |-> Query(cls, handlers)]
  /\ UNCHANGED <<metaClassDecorators, metaDecorators, designType, env, applied>>

\* factory.create(classObject)
DoCreate(cls, handlers) ==
  /\ last' = [op |-> "create", cls |-> cls, handlers |-> handlers,
              out |-> Create(cls, handlers)]
  /\ UNCHANGED <<metaClassDecorators, metaDecorators, designType, env, applied>>

Next ==
  \/ \E x \in Decorations : Decorate(x[1], x[2], x[3])
  \/ \E n \in EnvNames : \E v \in EnvValues(n) : SetEnv(n, v)
  \/ \E c \in Classes, h \in HandlerSets : DoQuery(c, h)
  \/ \E c \in Classes : DoCreate(c, DefaultHandlers)

Spec == Init /\ [][Next]_vars

(***************************************************************************)
(* Chains of env and parse declarations on one property, with empty        *)
(* strings and null among the values: TestClass.bar (a string, default     *)
(* 'sup') under any stack of up to MaxDecl env/parse decorators.           *)
(***************************************************************************)
ChainFns == ParseFns \cup {"nullIfEmpty"}

ChainDecorators ==
  {[type |-> "env", arg |-> n] : n \in EnvNames}
  \cup {[type |-> "parse", arg |-> fn] : fn \in ChainFns}

\* A variable may also be set to the empty string.
ChainEnvValues(name) ==
  IF name = "_TEST_FOO" THEN EnvValues(name) \cup {Str("")} ELSE EnvValues(name)

ChainInit ==
  /\ metaClassDecorators = [c \in Classes |-> NoMeta]
  /\ metaDecorators = [c \in Classes |-> [f \in Fields |-> NoMeta]]
  /\ designType = [c \in Classes |-> [f \in Fields |-> NoType]]
  /\ env \in {e \in [EnvNames -> UNION {ChainEnvValues(n) : n \in EnvNames}] :
                \A n \in EnvNames : e[n] \in ChainEnvValues(n)}
  /\ applied = [c \in Classes |-> [f \in Fields |-> <<>>]]
  /\ last = NoCall

ChainNext ==
  \/ \E d \in ChainDecorators : Decorate("TestClass", "bar", d)
  \/ \E n \in EnvNames : \E v \in ChainEnvValues(n) : SetEnv(n, v)
  \/ DoQuery("TestClass", DefaultHandlers)
  \/ DoCreate("TestClass", DefaultHandlers)

ChainSpec == ChainInit /\ [][ChainNext]_vars

(***************************************************************************)
(* Settings.$validateType and Settings.$validate called directly, as the   *)
(* tests call $validateType, on values and design types drawn from small   *)
(* sets.                                                                   *)
(***************************************************************************)
\* Values handed to the validators.
SampleValues == {Null, Str("1"), Num("1"), Obj("Nested", <<>>)}

\* Design types: null, the primitives' constructors, a class, and undefined.
SampleTypes == {"Null", "Number", "String", "Nested", "Undefined"}

ValidatedKeys == <<"foo", "bar">>

\* The {values, designTypes} pairs over the first n keys, every key of values
\* having an entry in designTypes.
ClassMetas(n) ==
  {[values |-> [i \in 1..n |-> Prop(ValidatedKeys[i], v[i])],
    designTypes |-> [i \in 1..n |-> Prop(ValidatedKeys[i], t[i])]] :
     v \in [1..n -> SampleValues], t \in [1..n -> SampleTypes]}

ValidateInit ==
  /\ metaClassDecorators = [c \in Classes |-> NoMeta]
  /\ metaDecorators = [c \in Classes |-> [f \in Fields |-> NoMeta]]
  /\ designType = [c \in Classes |-> [f \in Fields |-> NoType]]
  /\ env = [n \in EnvNames |-> Undefined]
  /\ applied = [c \in Classes |-> [f \in Fields |-> <<>>]]
  /\ last = NoCall

\* Settings.$validateType(expectedType, value): out.kind is the boolean returned.
DoValidateType(expectedType, value) ==
  /\ last' = [op |-> "$validateType", cls |-> "Settings", handlers |-> {},
              out |-> Outcome(IF ValidateType(expectedType, value) THEN "true" ELSE "false",
                              Null, <<>>, NoError,
                              [values |-> <<Prop("value", value)>>,
                               designTypes |-> <<Prop("value", expectedType)>>],
                              "", <<>>)]
  /\ UNCHANGED <<metaClassDecorators, metaDecorators, designType, env, applied>>

\* Settings.$validate(values, designTypes): out.kind is "success" for
\* {success: true, errors: null}, "errors" for {success: false, errors} and
\* "throw" when it raises.
DoValidate(meta) ==
  LET validate == Validate(meta.values, meta.designTypes)
  IN /\ last' = [op |-> "$validate", cls |-> "Settings", handlers |-> {},
                 out |-> Outcome(IF ~validate.ok THEN "throw"
                                 ELSE IF validate.success THEN "success" ELSE "errors",
                                 Null, validate.errors, validate.error, meta, "", <<>>)]
     /\ UNCHANGED <<metaClassDecorators, metaDecorators, designType, env, applied>>

ValidateNext ==
  \/ \E t \in SampleTypes \ {"Undefined"}, v \in SampleValues : DoValidateType(t, v)
  \/ \E n \in 1..Len(ValidatedKeys) : \E meta \in ClassMetas(n) : DoValidate(meta)

ValidateSpec == ValidateInit /\ [][ValidateNext]_vars

(***************************************************************************)
(* Properties.  They are stated on last, the call that has just returned   *)
(* or thrown, against the store and process.env it ran on.                 *)
(***************************************************************************)
Elems(seq) == {seq[i] : i \in 1..Len(seq)}

\* The chain query(cls) evaluates for property f, when it evaluates one.
HasChain(cls, f) == f \in Elems(Keys(cls)) /\ ProtoHandlers(cls, f).def
ChainOf(cls, f) == ProtoHandlers(cls, f).list

\* The call evaluated the whole chain of f without throwing in it.
Resolved(f) == HasProp(last.out.designTypes, f) /\ last.out.at # f

\* The chain of f is two env declarations.
TwoEnv(cls, f) ==
  /\ HasChain(cls, f)
  /\ Len(ChainOf(cls, f)) = 2
  /\ \A i \in 1..2 : ChainOf(cls, f)[i].type = "env"

\* C1: for a chain of two env declarations the topmost one (applied last) wins
\* when its variable is set, the lower one applies when only its variable is
\* set, and with both unset the field is omitted from the resolved values and
\* the instance keeps the class default.
C1_TopMostWins ==
  \A f \in Fields :
    (last.op # "none" /\ TwoEnv(last.cls, f) /\ Resolved(f)) =>
      LET D1 == env[ChainOf(last.cls, f)[2].arg]
          D2 == env[ChainOf(last.cls, f)[1].arg]
          expected == IF D1 # Undefined THEN D1 ELSE D2
          out == last.out
      IN /\ HasProp(out.values, f) <=> expected # Undefined
         /\ GetProp(out.values, f) = expected
         /\ out.kind = "result" =>
              IF expected # Undefined
              THEN GetProp(out.result.props, f) = expected
              ELSE /\ HasProp(out.result.props, f) <=> HasProp(Defaults(last.cls), f)
                   /\ GetProp(out.result.props, f) = GetProp(Defaults(last.cls), f)

\* Both variables set to different values: the topmost declaration's value is
\* on the instance.
C1_Witness ==
  /\ last.op = "query" /\ last.cls = "TestClass" /\ last.out.kind = "result"
  /\ TwoEnv("TestClass", "foo")
  /\ ChainOf("TestClass", "foo")[1].arg = "_TEST_FOO"
  /\ ChainOf("TestClass", "foo")[2].arg = "_TEST_FOO_PLUS"
  /\ env["_TEST_FOO"] = Num("1") /\ env["_TEST_FOO_PLUS"] = Num("100")
  /\ GetProp(last.out.result.props, "foo") = Num("100")

\* The chain of f is parse(fn) stacked above env(NAME).
ParseAboveEnv(cls, f) ==
  /\ HasChain(cls, f)
  /\ Len(ChainOf(cls, f)) = 2
  /\ ChainOf(cls, f)[1].type = "env"
  /\ ChainOf(cls, f)[2].type = "parse"

\* C2 as stated: with parse(fn) above env(NAME), fn is called on the value of
\* NAME, set or not, and the field takes fn's output.
C2_FieldTakesOutput ==
  \A f \in Fields :
    (last.op # "none" /\ ParseAboveEnv(last.cls, f) /\ Resolved(f)) =>
      LET input == env[ChainOf(last.cls, f)[1].arg]
          fn == ChainOf(last.cls, f)[2].arg
      IN /\ Ev("parse", f, fn, input) \in Elems(last.out.log)
         /\ GetProp(last.out.values, f) = ApplyFn(fn, input)

\* C2 (amended): with parse(fn) above env(NAME), fn is always called on the
\* value of NAME, absent included, and the field takes fn's output when that
\* output is defined; when fn returns undefined the value of NAME is kept
\* (and the field is omitted when NAME is unset as well).
C2_ParseWrapsEnv ==
  \A f \in Fields :
    (last.op # "none" /\ ParseAboveEnv(last.cls, f) /\ Resolved(f)) =>
      LET input == env[ChainOf(last.cls, f)[1].arg]
          fn == ChainOf(last.cls, f)[2].arg
          expected == IF ApplyFn(fn, input) # Undefined THEN ApplyFn(fn, input) ELSE input
      IN /\ Ev("parse", f, fn, input) \in Elems(last.out.log)
         /\ HasProp(last.out.values, f) <=> expected # Undefined
         /\ GetProp(last.out.values, f) = expected
         /\ last.out.kind = "result" /\ expected # Undefined =>
              GetProp(last.out.result.props, f) = expected

\* NAME unset: parseInt was called on undefined and its NaN is on the instance.
C2_Witness ==
  /\ last.op = "query" /\ last.cls = "TestClass" /\ last.out.kind = "result"
  /\ ParseAboveEnv("TestClass", "foo")
  /\ ChainOf("TestClass", "foo")[2].arg = "parseInt"
  /\ env[ChainOf("TestClass", "foo")[1].arg] = Undefined
  /\ Ev("parse", "foo", "parseInt", Undefined) \in Elems(last.out.log)
  /\ GetProp(last.out.result.props, "foo") = Num("NaN")

\* Base class TestClass declares foo by env(X) alone; Sub applies overwrite to
\* foo and nothing else.
OverwrittenIn(X) ==
  /\ applied["TestClass"]["foo"] = <<[type |-> "env", arg |-> X]>>
  /\ applied["Sub"]["foo"] = <<[type |-> "overwrite", arg |-> ""]>>

\* C3: with foo overwritten in Sub, resolving Sub never reads a variable for
\* foo and foo on the Sub instance is Sub's default whatever X holds; Sub's
\* other fields are resolved from TestClass's chains; resolving TestClass
\* still resolves foo to the value of X.
C3_OverrideIsolation ==
  \A X \in EnvNames :
    (OverwrittenIn(X) /\ last.op # "none" /\ "env" \in last.handlers) =>
      /\ last.cls = "Sub" =>
           /\ ~\E e \in Elems(last.out.log) : e.ev = "env" /\ e.on = "foo"
           /\ ~HasProp(last.out.values, "foo")
           /\ last.out.kind = "result" =>
                GetProp(last.out.result.props, "foo") = GetProp(Defaults("Sub"), "foo")
           /\ \A f \in Fields \ {"foo"} :
                /\ ProtoHandlers("Sub", f) = metaDecorators["TestClass"][f]
                /\ Resolved(f) =>
                     GetProp(last.out.values, f) =
                       GetProp(Query("TestClass", last.handlers).values, f)
      /\ last.cls = "TestClass" =>
           /\ GetProp(last.out.values, "foo") = env[X]
           /\ last.out.kind = "result" /\ env[X] # Undefined =>
                GetProp(last.out.result.props, "foo") = env[X]

\* X is set, Sub was resolved: foo is Sub's default and the inherited nested
\* field was resolved from TestClass's declaration.
C3_Witness ==
  /\ \E X \in EnvNames : OverwrittenIn(X) /\ env[X] # Undefined
  /\ last.op = "create" /\ last.cls = "Sub" /\ last.out.kind = "result"
  /\ GetProp(last.out.result.props, "foo") = Num("100")
  /\ GetProp(last.out.result.props, "nested").v = "Nested"

\* Every resolved value passes $validateType for its property's design type.
AllValid(out) ==
  \A i \in 1..Len(out.values) :
    ValidateType(GetProp(out.designTypes, out.values[i].k), out.values[i].val)

\* C4: when query returns, it returns either an instance with errors null or
\* result null with a non-empty error list; it returns an instance exactly
\* when every resolved value passed its type predicate, and the instance
\* carries those values.
C4_ResultShape ==
  (last.op = "query" /\ last.out.kind # "throw") =>
    LET out == last.out
    IN /\ out.kind \in {"result", "errors"}
       /\ out.kind = "result" <=> AllValid(out)
       /\ out.kind = "result" =>
            /\ out.errors = <<>>
            /\ InstanceOf(out.result, last.cls)
            /\ \A i \in 1..Len(out.values) :
                 GetProp(out.result.props, out.values[i].k) = out.values[i].val
       /\ out.kind = "errors" => out.result = Null /\ Len(out.errors) >= 1

\* query returned an instance carrying two validated values.
C4_Witness ==
  /\ last.op = "query" /\ last.out.kind = "result"
  /\ Len(last.out.values) = 2
  /\ AllValid(last.out)

\* C5 as stated: query never raises.
C5_QueryNeverRaises == last.op = "query" => last.out.kind # "throw"

\* No chain of cls can raise: every kind has a handler, none is nested, and
\* every decorated property has a design type.
NoStructuralHazard(cls, handlers) ==
  \A f \in Fields :
    HasChain(cls, f) =>
      /\ ~Falsy(DesignTypeOf(cls, f))
      /\ \A i \in 1..Len(ChainOf(cls, f)) :
           ChainOf(cls, f)[i].type \in handlers \ {"nested"}

\* C5 (amended): query returns {result: null, errors: non-empty} when values
\* of the class's own fields fail validation, and raises only for a
\* declaration kind without handler, a nested declaration on a property whose
\* design type is missing or no Settings subclass, a resolved property without
\* design type, or a nested class whose create raises.
C5_QueryRaisesOnlyStructural ==
  last.op = "query" =>
    LET out == last.out
    IN /\ NoStructuralHazard(last.cls, last.handlers) => out.kind # "throw"
       /\ out.kind = "errors" => out.result = Null /\ Len(out.errors) >= 1
       /\ out.kind = "throw" =>
            /\ out.result = Null /\ out.errors = <<>>
            /\ CASE out.error.msg = "unexpected handler type" ->
                       out.error.cite \notin last.handlers /\ out.at # ""
                  [] out.error.msg = "design type is null or undefined" ->
                       /\ out.at = out.error.cite
                       /\ Falsy(DesignTypeOf(last.cls, out.at))
                  [] out.error.msg = "is not a subclass of settings" ->
                       /\ out.at = out.error.cite
                       /\ DesignTypeOf(last.cls, out.at) \notin Classes
                  [] out.error.msg = "Could not resolve type for" ->
                       /\ out.at = ""
                       /\ HasProp(out.values, out.error.cite)
                       /\ Falsy(GetProp(out.designTypes, out.error.cite))
                  [] out.error.msg = "Error in fields" ->
                       /\ out.at # ""
                       /\ \E i \in 1..Len(ChainOf(last.cls, out.at)) :
                            ChainOf(last.cls, out.at)[i].type = "nested"
                  [] OTHER -> FALSE

\* Two own fields fail validation and query returns the errors.
C5_Witness ==
  /\ last.op = "query" /\ last.out.kind = "errors"
  /\ NoStructuralHazard(last.cls, last.handlers)
  /\ Len(last.out.errors) = 2

\* The resolved values that fail their type predicate, in key order.
Failing(out) ==
  SelectSeq(out.values,
            LAMBDA p : ~ValidateType(GetProp(out.designTypes, p.k), p.val))

\* The ValidationError of a failing value.
ErrorOf(out, p) == ValidationError(p.k, GetProp(out.designTypes, p.k), p.val)

\* Every resolved value has a design type: $validate checks them all.
TypesResolved(out) ==
  \A i \in 1..Len(out.values) : ~Falsy(GetProp(out.designTypes, out.values[i].k))

\* C6: when n >= 1 resolved values fail their type predicate, the list query
\* returns holds exactly n ValidationErrors, one per failing field in key
\* order and carrying its name, and the error create raises for its own
\* validation names every one of the n fields and carries each message.
C6_ValidationExhaustive ==
  LET out == last.out
      failing == Failing(out)
  IN /\ (last.op = "query" /\ out.kind # "throw" /\ Len(failing) >= 1) =>
          /\ out.kind = "errors"
          /\ Len(out.errors) = Len(failing)
          /\ \A i \in 1..Len(failing) : out.errors[i] = ErrorOf(out, failing[i])
     /\ (last.op = "create" /\ out.at = "" /\ TypesResolved(out) /\ Len(failing) >= 1) =>
          /\ out.kind = "throw"
          /\ out.error.msg = "Error in fields"
          /\ Len(out.error.fields) = Len(failing)
          /\ \A i \in 1..Len(failing) :
               /\ out.error.fields[i] = failing[i].k
               /\ out.error.messages[i] = ErrorOf(out, failing[i]).message

\* Two fields fail at once and query returns two errors, foo's and bar's.
C6_Witness ==
  /\ last.op = "query" /\ last.out.kind = "errors"
  /\ Len(Failing(last.out)) = 2
  /\ Len(last.out.errors) = 2
  /\ last.out.errors[1].propertyKey = "foo"
  /\ last.out.errors[2].propertyKey = "bar"

\* The chain of f is nested() and its design type is a Settings subclass.
NestedField(cls, f) ==
  /\ HasChain(cls, f)
  /\ ChainOf(cls, f) = <<Config("nested", f, "")>>
  /\ DesignTypeOf(cls, f) \in Classes

\* C7: a nested field of type N is resolved by creating N: when N resolves,
\* the outer field holds the instance of N populated from N's own
\* declarations; when N fails validation, resolving the outer class raises at
\* that field, and the error names the failing fields of N (the "nested
\* field's name" of the claim is read as the name of the field inside N, as
\* the test's /config/ has it).
C7_NestedResolution ==
  \A f \in Fields :
    (last.op # "none" /\ last.handlers = DefaultHandlers
       /\ NestedField(last.cls, f) /\ HasProp(last.out.designTypes, f)) =>
      LET N == DesignTypeOf(last.cls, f)
          inner == Query(N, last.handlers)
          out == last.out
      IN /\ inner.kind = "result" =>
              /\ Resolved(f)
              /\ GetProp(out.values, f) = inner.result
              /\ InstanceOf(GetProp(out.values, f), N)
              /\ \A g \in Fields :
                   (HasChain(N, g) /\ Len(ChainOf(N, g)) = 1
                      /\ ChainOf(N, g)[1].type = "env"
                      /\ env[ChainOf(N, g)[1].arg] # Undefined) =>
                     GetProp(GetProp(out.values, f).props, g) = env[ChainOf(N, g)[1].arg]
              /\ out.kind = "result" => GetProp(out.result.props, f) = inner.result
         /\ inner.kind = "errors" =>
              /\ out.kind = "throw" /\ out.at = f
              /\ out.error.msg = "Error in fields"
              /\ Len(out.error.fields) >= 1
              /\ out.error.fields = [i \in 1..Len(inner.errors) |-> inner.errors[i].propertyKey]
              /\ \A i \in 1..Len(out.error.fields) : HasChain(N, out.error.fields[i])

\* Nested fails validation on config: resolving TestClass raises at nested and
\* the error names config.
C7_Witness ==
  /\ last.op = "query" /\ last.cls = "TestClass" /\ last.handlers = DefaultHandlers
  /\ NestedField("TestClass", "nested")
  /\ last.out.kind = "throw" /\ last.out.at = "nested"
  /\ last.out.error.fields = <<"config">>

\* C8: a successful query/create runs the target's constructor (the field
\* defaults), then defines every resolved value on the instance, then calls
\* onBuild; onBuild runs once per constructed instance and sees every
\* resolved field with its final value and every other field with its default.
C8_LifecycleOrder ==
  (last.op # "none" /\ last.out.kind = "result") =>
    LET out == last.out
        log == out.log
        n == Len(out.values)
        base == Len(log) - n - 2
        seen == log[Len(log)].val
    IN /\ base >= 0
       /\ log[base + 1] = Ev("constructor", last.cls, "", Obj(last.cls, Defaults(last.cls)))
       /\ \A i \in 1..n :
            log[base + 1 + i] =
              Ev("defineProperty", last.cls, out.values[i].k, out.values[i].val)
       /\ log[Len(log)] = Ev("onBuild", last.cls, "", out.result)
       /\ \A f \in Fields :
            GetProp(seen.props, f) =
              IF HasProp(out.values, f) THEN GetProp(out.values, f)
              ELSE GetProp(Defaults(last.cls), f)
       /\ \A c \in Classes :
            Cardinality({i \in 1..Len(log) : log[i].ev = "onBuild" /\ log[i].on = c})
              = Cardinality({i \in 1..Len(log) : log[i].ev = "constructor" /\ log[i].on = c})
       /\ \A i \in 1..Len(log) :
            log[i].ev = "constructor" =>
              \E j \in (i + 1)..Len(log) :
                /\ log[j].ev = "onBuild" /\ log[j].on = log[i].on
                /\ \A k \in (i + 1)..(j - 1) : log[k].ev = "defineProperty"

\* An instance of Sub was built: onBuild saw the resolved nested field and the
\* defaults of foo and bar.
C8_Witness ==
  /\ last.op = "create" /\ last.cls = "Sub" /\ last.out.kind = "result"
  /\ HasProp(last.out.values, "nested")
  /\ LET seen == last.out.log[Len(last.out.log)]
     IN /\ seen.ev = "onBuild"
        /\ GetProp(seen.val.props, "nested").v = "Nested"
        /\ GetProp(seen.val.props, "foo") = Num("100")
        /\ GetProp(seen.val.props, "bar") = Str("sup")

\* The chain of f holds a config without handler, or a nested config on a
\* property whose design type is missing or no Settings subclass.
Defective(cls, handlers, f) ==
  /\ HasChain(cls, f)
  /\ \E i \in 1..Len(ChainOf(cls, f)) :
       \/ ChainOf(cls, f)[i].type \notin handlers
       \/ /\ ChainOf(cls, f)[i].type = "nested"
          /\ DesignTypeOf(cls, f) \notin Classes

StructuralMessages ==
  {"unexpected handler type", "design type is null or undefined",
   "is not a subclass of settings"}

\* C9: when a chain of the class is defective, query/create raises: it returns
\* no result and no error list and builds no instance of the class; it raises
\* at the first defective field unless an earlier nested field already raised,
\* and what a defective field raises is a plain Error, not ValidationErrors.
C9_StructuralErrorsRaise ==
  (last.op # "none" /\ \E f \in Fields : Defective(last.cls, last.handlers, f)) =>
    LET out == last.out
        keys == Keys(last.cls)
    IN /\ out.kind = "throw" /\ out.result = Null /\ out.errors = <<>>
       /\ ~\E e \in Elems(out.log) : e.ev = "constructor" /\ e.on = last.cls
       /\ \E j \in 1..Len(keys) :
            /\ keys[j] = out.at
            /\ \A k \in 1..(j - 1) : ~Defective(last.cls, last.handlers, keys[k])
       /\ IF Defective(last.cls, last.handlers, out.at)
          THEN /\ out.error.msg \in StructuralMessages
               /\ out.error.fields = <<>> /\ out.error.messages = <<>>
          ELSE /\ DesignTypeOf(last.cls, out.at) \in Classes
               /\ \E i \in 1..Len(ChainOf(last.cls, out.at)) :
                    ChainOf(last.cls, out.at)[i].type = "nested"

\* A factory without handlers: query raises on the first env declaration.
C9_Witness ==
  /\ last.op = "query" /\ last.cls = "TestClass" /\ last.handlers = {}
  /\ last.out.kind = "throw" /\ last.out.at = "foo"
  /\ last.out.error = Error("unexpected handler type", "env")

Subclasses == {c \in Classes : Parent(c) \in Classes}

\* The step applies an env/parse/nested decorator d to property f of class S.
Declares(S, f, d) ==
  /\ d.type # "overwrite"
  /\ applied' = [applied EXCEPT ![S][f] = Append(@, d)]

\* What a call hands to its caller: the instance, the error list or the error.
Returned(out) ==
  [kind |-> out.kind, result |-> out.result, errors |-> out.errors, error |-> out.error]

\* C11: applying an env/parse/nested decorator to a property f of a subclass S
\* of B (f new, or already declared on B, without overwrite) appends to S's
\* own chain only: the chain found for f from B, the outcome of query(B) and
\* the outcome of query on every other subclass of B are the same before and
\* after.
C11_NoLeak ==
  [][\A S \in Subclasses, f \in Fields, d \in Decorators :
       Declares(S, f, d) =>
         LET B == Parent(S)
         IN /\ metaDecorators'[S][f].list =
                 Append(metaDecorators[S][f].list, Config(d.type, f, d.arg))
            /\ ProtoHandlers(B, f)' = ProtoHandlers(B, f)
            /\ \A c \in {B} \cup {x \in Subclasses \ {S} : Parent(x) = B} :
                 \A h \in HandlerSets :
                   Returned(Query(c, h))' = Returned(Query(c, h))]_vars

\* Sub declared foo, which TestClass declares, without overwrite.
C11_Witness ==
  /\ Len(applied["TestClass"]["foo"]) = 1
  /\ applied["Sub"]["foo"] = <<[type |-> "env", arg |-> "_TEST_FOO"]>>

\* The configs of the env/parse/nested decorators applied to property f in
\* the definition of class cls, in the order of their application.
OwnDeclarations(cls, f) ==
  LET own == SelectSeq(applied[cls][f], LAMBDA d : d.type # "overwrite")
  IN [i \in 1..Len(own) |-> Config(own[i].type, f, own[i].arg)]

\* S applies overwrite (once) to a field x its parent declares, together with
\* zero or more env/parse decorators of its own, in some stacking order.
OverwritesInherited(S, x) ==
  /\ applied[Parent(S)][x] # <<>>
  /\ Len(SelectSeq(applied[S][x], LAMBDA d : d.type = "overwrite")) = 1
  /\ \A i \in 1..Len(applied[S][x]) :
       applied[S][x][i].type \in {"overwrite", "env", "parse"}

\* C12: when a subclass S applies overwrite to an inherited field x together
\* with env/parse decorators of its own, stacked in any order, the chain used
\* to resolve S.x is exactly S's own declarations (empty when it has none, and
\* then the field is left to its default), the value resolved for S.x is the
\* one that chain yields, and the ancestor's chain for x is what the ancestor
\* declared.
C12_OverwriteReplaces ==
  \A S \in Subclasses, x \in Fields :
    OverwritesInherited(S, x) =>
      /\ ChainOf(S, x) = OwnDeclarations(S, x)
      /\ ChainOf(Parent(S), x) = OwnDeclarations(Parent(S), x)
      /\ (last.op # "none" /\ last.cls = S /\ Resolved(x)) =>
           LET r == ResolveValue(DesignTypeOf(S, x), OwnDeclarations(S, x), last.handlers)
           IN /\ HasProp(last.out.values, x) <=> r.value # Undefined
              /\ GetProp(last.out.values, x) = r.value

\* Sub stacks overwrite on top of an env declaration of its own on foo.
C12_Witness ==
  /\ applied["TestClass"]["foo"] # <<>>
  /\ applied["Sub"]["foo"] =
       <<[type |-> "env", arg |-> "_TEST_FOO"], [type |-> "overwrite", arg |-> ""]>>

\* What the handler of a declaration returns on an input.
OutputOf(config, input) ==
  IF config.type = "env" THEN env[config.arg] ELSE ApplyFn(config.arg, input)

\* The value of the first n declarations of a chain (as applied, the n-th
\* being the topmost of them): the output of the topmost declaration among
\* them that returns a defined value on the value of the declarations below
\* it, absent when none does.
RECURSIVE ValueOf(_, _)
ValueOf(chain, n) ==
  LET defined == {k \in 1..n : OutputOf(chain[k], ValueOf(chain, k - 1)) # Undefined}
      top == CHOOSE k \in defined : \A j \in defined : j <= k
  IN IF defined = {} THEN Undefined
     ELSE OutputOf(chain[top], ValueOf(chain, top - 1))

\* The chain of f holds env and parse declarations only.
EnvParseChain(cls, f) ==
  /\ HasChain(cls, f)
  /\ \A i \in 1..Len(ChainOf(cls, f)) : ChainOf(cls, f)[i].type \in {"env", "parse"}

\* C13: for a chain of env and parse declarations, every handler is called on
\* the value of the part of the chain below it, the resolved value is the
\* output of the topmost declaration returning a defined value (the field is
\* omitted when none does), null and the empty string are defined values, and
\* on the instance the resolved value replaces the default.
C13_AbsentFallsThrough ==
  \A f \in Fields :
    (last.op # "none" /\ EnvParseChain(last.cls, f) /\ Resolved(f)) =>
      LET chain == ChainOf(last.cls, f)
          out == last.out
          calls == SelectSeq(out.log, LAMBDA e : e.ev \in {"env", "parse"} /\ e.on = f)
          expected == ValueOf(chain, Len(chain))
      IN /\ Len(calls) = Len(chain)
         /\ \A n \in 1..Len(chain) :
              calls[n] = Ev(chain[n].type, f, chain[n].arg,
                            IF chain[n].type = "env" THEN env[chain[n].arg]
                            ELSE ValueOf(chain, n - 1))
         /\ HasProp(out.values, f) <=> expected # Undefined
         /\ GetProp(out.values, f) = expected
         /\ out.kind = "result" =>
              GetProp(out.result.props, f) =
                IF expected # Undefined THEN expected ELSE GetProp(Defaults(last.cls), f)

\* An empty string from the topmost env declaration wins over the value of the
\* declaration below it and over the default of bar.
C13_Witness ==
  /\ last.op = "query" /\ last.cls = "TestClass" /\ last.out.kind = "result"
  /\ ChainOf("TestClass", "bar") =
       <<Config("env", "bar", "_TEST_FOO_PLUS"), Config("parse", "bar", "numberOnly"),
         Config("env", "bar", "_TEST_FOO")>>
  /\ env["_TEST_FOO_PLUS"] = Num("100") /\ env["_TEST_FOO"] = Str("")
  /\ GetProp(last.out.result.props, "bar") = Str("")

\* C14: $validateType(null, v) is true exactly when v is null, and $validate
\* gives the same verdict for a field whose design type is null (every field
\* of the call having a design type that is not undefined): no error for the
\* field when its value is null, one ValidationError for it otherwise, and the
\* call succeeds when no field fails.
C14_NullDeclaredType ==
  LET out == last.out
  IN /\ (last.op = "$validateType" /\ GetProp(out.designTypes, "value") = "Null") =>
          (out.kind = "true" <=> GetProp(out.values, "value") = Null)
     /\ (last.op = "$validate"
           /\ \A i \in 1..Len(out.designTypes) : out.designTypes[i].val # "Undefined") =>
          /\ out.kind # "throw"
          /\ out.kind = "success" <=> AllValid(out)
          /\ \A i \in 1..Len(out.values) :
               GetProp(out.designTypes, out.values[i].k) = "Null" =>
                 Len(SelectSeq(out.errors, LAMBDA e : e.propertyKey = out.values[i].k))
                   = IF out.values[i].val = Null THEN 0 ELSE 1

\* $validate was called on a null value whose design type is null.
C14_Witness ==
  /\ last.op = "$validate"
  /\ last.out.values = <<Prop("foo", Null)>>
  /\ last.out.designTypes = <<Prop("foo", "Null")>>

\* The call did not return an instance.
Failed == last.op \in {"query", "create"} /\ last.out.kind \in {"errors", "throw"}

\* The steps of buildInstance in a call's log.
Construction(log) ==
  SelectSeq(log, LAMBDA e : e.ev \in {"constructor", "defineProperty", "onBuild"})

\* f is declared nested in cls and its design type is a Settings subclass.
NestsSettings(cls, f) ==
  /\ HasChain(cls, f)
  /\ DesignTypeOf(cls, f) \in Classes
  /\ \E i \in 1..Len(ChainOf(cls, f)) : ChainOf(cls, f)[i].type = "nested"

\* C15 as stated: when a query/create call on C does not return an instance,
\* no constructor and no onBuild hook has run during the call, neither C's nor
\* that of a class reached through C's nested fields.
C15_NoConstructionOnFailure ==
  Failed => Construction(last.out.log) = <<>>

\* C15 (amended): when a query/create call on C does not return an instance,
\* neither C's constructor nor C's onBuild hook has run and no value has been
\* defined on an instance of C; the nested fields of C resolved before the
\* failure were resolved through create, so for each of them the nested class
\* was constructed and its onBuild hook run, and nothing else was constructed.
C15_NoConstructionOfTarget ==
  Failed =>
    LET out == last.out
        built == Construction(out.log)
    IN /\ \A i \in 1..Len(built) :
            /\ built[i].on # last.cls
            /\ \E f \in Fields : NestsSettings(last.cls, f) /\ built[i].on = DesignTypeOf(last.cls, f)
            /\ built[i].ev = "constructor" =>
                 \E j \in (i + 1)..Len(built) :
                   built[j].ev = "onBuild" /\ built[j].on = built[i].on
       /\ \A f \in Fields :
            (NestsSettings(last.cls, f) /\ Resolved(f)) =>
              /\ InstanceOf(GetProp(out.values, f), DesignTypeOf(last.cls, f))
              /\ Ev("onBuild", DesignTypeOf(last.cls, f), "", GetProp(out.values, f))
                   \in Elems(out.log)

\* query(TestClass) returned errors for foo after the nested field had been
\* resolved: Nested was constructed and its hook run.
C15_Witness ==
  /\ last.op = "query" /\ last.cls = "TestClass" /\ last.out.kind = "errors"
  /\ last.out.errors[1].propertyKey = "foo"
  /\ NestsSettings("TestClass", "nested")
  /\ \E e \in Elems(last.out.log) : e.ev = "onBuild" /\ e.on = "Nested"

====
